---- MODULE Spec2Model ----
(***************************************************************************)
(* graphene-django-permissions: the field authorization middleware         *)
(* (graphene_django_permissions/middleware.py), the permission backend it  *)
(* queries through user.has_perm, and the schema of tests/schema.py it is  *)
(* installed on.                                                           *)
(***************************************************************************)
EXTENDS Integers, Sequences, FiniteSets, TLC

VARIABLES
    modelPerms,   \* permission names p with user.has_perm(p) true
    objPerms,     \* pairs <<p, o>> with user.has_perm(p, obj=o) true
    failing,      \* has_perm queries an authorization backend raises on
    call,         \* the most recent call of the middleware: inputs and outcome
    query,        \* the request being executed: operation, selected fields
    todo,         \* fields of the request not resolved yet
    response,     \* the response's data so far: response path -> node
    errors,       \* the response's errors so far, in order
    written,      \* primary keys of the rows the request's mutation has saved
    log,          \* the calls of the middleware the request has made so far
    nextCalls     \* response path -> how many times its resolver has been run

permVars == <<modelPerms, objPerms, failing>>
engineVars == <<query, todo, response, errors, written, log, nextCalls>>
vars ==
    <<modelPerms, objPerms, failing, call, query, todo, response, errors,
      written, log, nextCalls>>

----------------------------------------------------------------------------
(* Bounds *)

\* Longest QuerySet / list / tuple / set a resolver returns.
MaxLen == 2

----------------------------------------------------------------------------
(* The models of tests/models.py and the rows the factories create *)

Kinds == {"project", "expense", "user"}

\* model._meta of each model class: app_label and model_name.
Meta ==
    [project |-> [app_label |-> "tests", model_name |-> "project"],
     expense |-> [app_label |-> "tests", model_name |-> "expense"],
     user    |-> [app_label |-> "auth",  model_name |-> "user"]]

\* The rows in the database, by primary key, with the model of each.
KindOf == [u1 |-> "user", p1 |-> "project", p2 |-> "project", e1 |-> "expense"]

Entities == DOMAIN KindOf

\* obj=None in user.has_perm(perm, obj=None).
NoObj == "None"

----------------------------------------------------------------------------
(* Values a resolver hands to the middleware (result.value) *)

NoneValue == [tag |-> "None"]

ScalarValue == [tag |-> "scalar", v |-> "text"]

ModelObject(e) == [tag |-> "Model", id |-> e]

ModelObjects == {ModelObject(e) : e \in Entities}

ObjectsOfKind(k) == {ModelObject(e) : e \in {x \in Entities : KindOf[x] = k}}

SeqsUpTo(S, n) == UNION {[1..k -> S] : k \in 0..n}

Distinct(s) == \A i, j \in DOMAIN s : i # j => s[i] # s[j]

\* A QuerySet: the rows of one model, in the order the query yields them.
QuerySets ==
    {[tag |-> "QuerySet", model |-> k, items |-> s] :
        k \in Kinds, s \in SeqsUpTo(ObjectsOfKind("project"), MaxLen)
                           \cup SeqsUpTo(ModelObjects, 1)}

WellFormedQuerySet(v) == \A i \in DOMAIN v.items : KindOf[v.items[i].id] = v.model

\* A member of a plain sequence that is not a model object but holds one.
InnerTuples == {[tag |-> "tuple", items |-> <<m>>] : m \in ObjectsOfKind("project")}

Members == ModelObjects \cup {ScalarValue} \cup InnerTuples

\* list, tuple and set values; a set is given in its iteration order.
PlainSequences ==
    {v \in {[tag |-> t, items |-> s] :
                t \in {"list", "tuple", "set"}, s \in SeqsUpTo(Members, MaxLen)} :
        v.tag = "set" => Distinct(v.items)}

\* Iterables that are neither QuerySet nor list, tuple or set (a generator,
\* a frozenset, ...), and the other values.
OtherValues ==
    {NoneValue, ScalarValue}
    \cup {[tag |-> "iterator", items |-> s] : s \in SeqsUpTo(ModelObjects, 1)}

ResultValues ==
    ModelObjects
    \cup {v \in QuerySets : WellFormedQuerySet(v)}
    \cup PlainSequences
    \cup OtherValues

----------------------------------------------------------------------------
(* middleware.py: permission names and the permission checks *)

\* Faulty variant: the app label is joined with an underscore.
permission_name_without_dot(meta, action) ==
    meta.app_label \o "_" \o action \o "_" \o meta.model_name

\* The f-string of line 14 over a model's _meta.
permission_name(meta, action) ==
    meta.app_label \o "." \o action \o "_" \o meta.model_name

get_permission_for_model(model, action) == permission_name(Meta[model], action)

get_view_permission_for_model(model) == get_permission_for_model(model, "view")

\* user.has_perm(perm, obj) of the request's user (info.context.user).
has_perm(perm, obj) ==
    IF obj = NoObj THEN perm \in modelPerms ELSE <<perm, obj>> \in objPerms

\* One has_perm query, as logged in call.checks.
Check(perm, obj) == [perm |-> perm, obj |-> obj]

\* Faulty variant: the object-level query is left out.
has_permission_model_level_only(object) ==
    has_perm(get_view_permission_for_model(KindOf[object.id]), NoObj)

\* Faulty variant: the model of the QuerySet of the previous call, kept on the
\* middleware instance, names the permission.
has_permission_with_remembered_model(object) ==
    LET model == IF call.state = "done" /\ call.value.tag = "QuerySet"
                 THEN call.value.model
                 ELSE KindOf[object.id]
        permission == get_view_permission_for_model(model)
    IN  has_perm(permission, NoObj) \/ has_perm(permission, object.id)

\* Faulty variant: a row is viewable when exactly one of the two queries
\* answers yes.
has_permission_either_but_not_both(object) ==
    LET model == KindOf[object.id]
        permission == get_view_permission_for_model(model)
    IN  has_perm(permission, NoObj) # has_perm(permission, object.id)

\* Faulty variant: the permission to change the rows of a model also lets
\* the principal view them.
has_permission_for_any_action(object) ==
    LET model == KindOf[object.id]
        permission == get_view_permission_for_model(model)
    IN  \/ has_perm(permission, NoObj)
        \/ has_perm(permission, object.id)
        \/ has_perm(get_permission_for_model(model, "change"), NoObj)

has_permission_to_view_model_object(object) ==
    LET model == KindOf[object.id]
        permission == get_view_permission_for_model(model)
    IN  has_perm(permission, NoObj) \/ has_perm(permission, object.id)

\* Faulty variant: both has_perm queries are issued whatever the first one
\* answers.
object_checks_without_short_circuit(object) ==
    LET permission == get_view_permission_for_model(KindOf[object.id])
    IN  <<Check(permission, NoObj), Check(permission, object.id)>>

\* The has_perm queries has_permission_to_view_model_object issues: `or`
\* evaluates its right operand only when the left one is false.
object_checks(object) ==
    LET permission == get_view_permission_for_model(KindOf[object.id])
    IN  IF has_perm(permission, NoObj)
        THEN <<Check(permission, NoObj)>>
        ELSE <<Check(permission, NoObj), Check(permission, object.id)>>

----------------------------------------------------------------------------
(* middleware.py: GrapheneAuthorizationMiddleware.resolve *)

PermissionDeniedMessage == "You do not have permission to access this field"

Return(v) == [kind |-> "return", value |-> v]

Raise(error, message) == [kind |-> "raise", error |-> error, message |-> message]

ListOf(s) == [tag |-> "list", items |-> s]

Flatten(ss) ==
    LET F[i \in 0..Len(ss)] == IF i = 0 THEN <<>> ELSE F[i - 1] \o ss[i]
    IN  F[Len(ss)]

\* Faulty variant: a denied object on a nullable field is handed on.
resolve_model_keeps_denied(value, nonNull) ==
    IF ~has_permission_to_view_model_object(value) /\ nonNull
    THEN Raise("PermissionDenied", PermissionDeniedMessage)
    ELSE Return(value)

\* Faulty variant: a denied object raises on a nullable field too.
resolve_model_raises_always(value, nonNull) ==
    IF ~has_permission_to_view_model_object(value)
    THEN Raise("PermissionDenied", PermissionDeniedMessage)
    ELSE Return(value)

\* Faulty variant: a denied object becomes None on a non-null field too.
resolve_model_never_raises(value, nonNull) ==
    IF ~has_permission_to_view_model_object(value)
    THEN Return(NoneValue)
    ELSE Return(value)

\* Faulty variant: the denial is raised as a plain error with another message.
resolve_model_raises_generic(value, nonNull) ==
    IF ~has_permission_to_view_model_object(value)
    THEN IF nonNull
         THEN Raise("GraphQLError", "Permission denied")
         ELSE Return(NoneValue)
    ELSE Return(value)

\* The Model branch (lines 41-56).
resolve_model(value, nonNull) ==
    IF ~has_permission_to_view_model_object(value)
    THEN IF nonNull
         THEN Raise("PermissionDenied", PermissionDeniedMessage)
         ELSE Return(NoneValue)
    ELSE Return(value)

\* Faulty variant: the QuerySet is handed on without filtering.
resolve_queryset_unfiltered(value) == Return(value)

\* Faulty variant: a QuerySet with nothing left after filtering raises.
resolve_queryset_raises_when_empty(value) ==
    LET permission == get_view_permission_for_model(value.model)
        kept == SelectSeq(value.items, LAMBDA obj : has_perm(permission, obj.id))
    IN  IF ~has_perm(permission, NoObj)
        THEN IF kept = <<>>
             THEN Raise("PermissionDenied", PermissionDeniedMessage)
             ELSE Return(ListOf(kept))
        ELSE Return(value)

\* Faulty variant: the QuerySet is filtered object by object even with the
\* model-level permission.
resolve_queryset_always_filters(value) ==
    LET permission == get_view_permission_for_model(value.model)
    IN  Return(ListOf(SelectSeq(value.items,
                                LAMBDA obj : has_perm(permission, obj.id))))

\* Faulty variant: the QuerySet is iterated for the checks and then narrowed
\* with a filter on the permitted rows, which is a new QuerySet.
resolve_queryset_refilters(value) ==
    LET permission == get_view_permission_for_model(value.model)
    IN  IF ~has_perm(permission, NoObj)
        THEN Return([value EXCEPT !.items =
                        SelectSeq(value.items,
                                  LAMBDA obj : has_perm(permission, obj.id))])
        ELSE Return(value)

\* The QuerySet branch (lines 58-73).
resolve_queryset(value) ==
    LET permission == get_view_permission_for_model(value.model)
    IN  IF ~has_perm(permission, NoObj)
        THEN Return(ListOf(SelectSeq(value.items,
                                     LAMBDA obj : has_perm(permission, obj.id))))
        ELSE Return(value)

\* Faulty variant: members that are not model objects are dropped.
resolve_sequence_drops_non_models(value) ==
    Return(ListOf(SelectSeq(value.items,
                            LAMBDA obj : /\ obj.tag = "Model"
                                         /\ has_permission_to_view_model_object(obj))))

\* Faulty variant: a member that is not a model object is looked into, and
\* dropped when it holds a model object the user may not view.
resolve_sequence_checks_nested(value) ==
    Return(ListOf(SelectSeq(value.items,
        LAMBDA obj :
            IF obj.tag = "Model" THEN has_permission_to_view_model_object(obj)
            ELSE IF obj.tag = "tuple"
            THEN \A i \in DOMAIN obj.items :
                    has_permission_to_view_model_object(obj.items[i])
            ELSE TRUE)))

\* The list / tuple / set branch (lines 75-87).
resolve_sequence(value) ==
    Return(ListOf(SelectSeq(value.items,
                            LAMBDA obj : \/ obj.tag # "Model"
                                         \/ has_permission_to_view_model_object(obj))))

\* Faulty variant: every iterable of model objects is filtered like a list.
resolve_branches_filters_iterables(value, nonNull) ==
    IF value.tag = "Model" THEN resolve_model(value, nonNull)
    ELSE IF value.tag = "QuerySet" THEN resolve_queryset(value)
    ELSE IF value.tag \in {"list", "tuple", "set", "iterator"}
    THEN resolve_sequence(value)
    ELSE Return(value)

\* The isinstance branches of resolve (lines 41-89) when every has_perm query
\* is answered.
resolve_branches(value, nonNull) ==
    IF value.tag = "Model" THEN resolve_model(value, nonNull)
    ELSE IF value.tag = "QuerySet" THEN resolve_queryset(value)
    ELSE IF value.tag \in {"list", "tuple", "set"} THEN resolve_sequence(value)
    ELSE Return(value)

\* Faulty variant: the rows of the QuerySet are queried one by one whatever
\* the model-level query answers.
queryset_checks_every_row(value) ==
    LET permission == get_view_permission_for_model(value.model)
    IN  <<Check(permission, NoObj)>>
        \o [i \in DOMAIN value.items |-> Check(permission, value.items[i].id)]

\* The has_perm queries of the QuerySet branch (lines 61-73).
queryset_checks(value) ==
    LET permission == get_view_permission_for_model(value.model)
    IN  IF ~has_perm(permission, NoObj)
        THEN <<Check(permission, NoObj)>>
             \o [i \in DOMAIN value.items |->
                    Check(permission, value.items[i].id)]
        ELSE <<Check(permission, NoObj)>>

\* The has_perm queries resolve issues, in order, when every one is answered.
resolve_checks(value) ==
    IF value.tag = "Model" THEN object_checks(value)
    ELSE IF value.tag = "QuerySet" THEN queryset_checks(value)
    ELSE IF value.tag \in {"list", "tuple", "set"} THEN
        Flatten([i \in DOMAIN value.items |->
                    IF value.items[i].tag = "Model"
                    THEN object_checks(value.items[i])
                    ELSE <<>>])
    ELSE <<>>

\* An exception a backend raised out of user.has_perm.
BackendErrorMessage == "authorization backend failure"

\* The has_perm queries resolve issues: an exception out of user.has_perm
\* ends the call, so no query follows the first one a backend raises on.
issued_checks(value) ==
    LET checks == resolve_checks(value)
        raised == {i \in DOMAIN checks : checks[i] \in failing}
    IN  IF raised = {} THEN checks
        ELSE SubSeq(checks, 1, CHOOSE i \in raised : \A j \in raised : i <= j)

backend_raises(value) ==
    \E i \in DOMAIN resolve_checks(value) : resolve_checks(value)[i] \in failing

\* Faulty variant: an exception out of user.has_perm is caught and the field
\* becomes None.
resolve_catches_backend_errors(value, nonNull) ==
    IF backend_raises(value)
    THEN Return(NoneValue)
    ELSE resolve_branches(value, nonNull)

\* What resolve does with the value next(root, info, **args) produced, on a
\* field whose info.return_type is GraphQLNonNull or not. resolve has no
\* try / except: an exception out of user.has_perm leaves it as it is.
resolve(value, nonNull) ==
    IF backend_raises(value)
    THEN Raise("BackendError", BackendErrorMessage)
    ELSE resolve_branches(value, nonNull)

\* How many times resolve iterates over a QuerySet it was handed: once, in
\* the comprehension of lines 69-73, and only when the model-level check of
\* line 61 is false.
resolve_iterations(value) ==
    IF /\ value.tag = "QuerySet"
       /\ ~has_perm(get_view_permission_for_model(value.model), NoObj)
    THEN 1
    ELSE 0

\* How many times the database runs a query for a field whose resolver
\* produced `value`: a QuerySet runs its query the first time it is iterated
\* and keeps the rows, so the iteration in resolve costs one query, and so
\* does the engine's iteration over a QuerySet it is handed unless that is
\* the very QuerySet resolve has iterated already.
fetches(value, outcome) ==
    LET iterated == IF value.tag = "QuerySet" THEN resolve_iterations(value) ELSE 0
        handed == IF /\ outcome.kind = "return"
                     /\ outcome.value.tag = "QuerySet"
                     /\ ~(outcome.value = value /\ iterated > 0)
                  THEN 1
                  ELSE 0
    IN  iterated + handed

----------------------------------------------------------------------------
(* One field of a request: the resolver's value goes through the middleware *)

\* Permissions any authorization backend may grant: each view permission at
\* model level, and each row's own view permission at object level.
ViewPermissions == {get_view_permission_for_model(k) : k \in Kinds}

ObjectGrants == {<<get_view_permission_for_model(KindOf[e]), e>> : e \in Entities}

\* Every has_perm query the middleware can issue.
Checks ==
    {Check(perm, NoObj) : perm \in ViewPermissions}
        \cup {Check(g[1], g[2]) : g \in ObjectGrants}

\* The backends answer every query.
InitPerms ==
    /\ modelPerms \in SUBSET ViewPermissions
    /\ objPerms \in SUBSET ObjectGrants
    /\ failing = {}

\* One query makes a backend raise; the object-level answers are all alike.
InitFailingPerms ==
    /\ modelPerms \in SUBSET ViewPermissions
    /\ objPerms \in {{}, ObjectGrants}
    /\ failing \in {{c} : c \in Checks}

\* A field whose resolver is about to produce `value`.
Pending(value, nonNull) == [state |-> "pending", value |-> value, nonNull |-> nonNull]

\* The same field after the middleware has run on the value.
Done(value, nonNull) ==
    [state   |-> "done",
     value   |-> value,
     nonNull |-> nonNull,
     outcome |-> resolve(value, nonNull),
     checks  |-> issued_checks(value),
     fetches |-> fetches(value, resolve(value, nonNull)),
     iterations |-> resolve_iterations(value)]

NoQuery == [operation |-> "None", fields |-> {}, shape |-> "None"]

InitResolve ==
    /\ InitPerms
    /\ call \in {Pending(v, n) : v \in ResultValues, n \in BOOLEAN}
    /\ query = NoQuery
    /\ todo = {}
    /\ response = <<>>
    /\ errors = <<>>
    /\ written = {}
    /\ log = {}
    /\ nextCalls = <<>>

Intercept ==
    /\ call.state = "pending"
    /\ call' = Done(call.value, call.nonNull)
    /\ UNCHANGED permVars
    /\ UNCHANGED engineVars

NextResolve == Intercept

SpecResolve == InitResolve /\ [][NextResolve]_vars

\* One call of the middleware while a backend raises on one query.
InitFailing ==
    /\ InitFailingPerms
    /\ call \in {Pending(v, n) : v \in ResultValues, n \in BOOLEAN}
    /\ query = NoQuery
    /\ todo = {}
    /\ response = <<>>
    /\ errors = <<>>
    /\ written = {}
    /\ log = {}
    /\ nextCalls = <<>>

SpecFailing == InitFailing /\ [][NextResolve]_vars

----------------------------------------------------------------------------
(* Permission names of two model classes of any installed apps *)

\* App labels and model names are Python identifiers: Django refuses an app
\* label that is not one, and a model name is a lower-cased class name.
AppLabels == {"tests", "auth", "a", "a_view"}

ModelNames == {"project", "user", "b", "view_b"}

Actions == {"view", "change"}

ModelMetas == [app_label : AppLabels, model_name : ModelNames]

InitNames ==
    /\ modelPerms = {}
    /\ objPerms = {}
    /\ failing = {}
    /\ call \in [state : {"naming"}, action : Actions,
                  first : ModelMetas, second : ModelMetas]
    /\ query = NoQuery
    /\ todo = {}
    /\ response = <<>>
    /\ errors = <<>>
    /\ written = {}
    /\ log = {}
    /\ nextCalls = <<>>

\* get_permission_for_model is called for both models with the same action.
DerivePermissions ==
    /\ call.state = "naming"
    /\ call' = [state  |-> "named",
                action |-> call.action,
                first  |-> call.first,
                second |-> call.second,
                names  |-> <<permission_name(call.first, call.action),
                             permission_name(call.second, call.action)>>]
    /\ UNCHANGED permVars
    /\ UNCHANGED engineVars

NextNames == DerivePermissions

SpecNames == InitNames /\ [][NextNames]_vars

----------------------------------------------------------------------------
(* The schema of tests/schema.py over the models of tests/models.py *)

Field(type, list, nonNull) == [type |-> type, list |-> list, nonNull |-> nonNull]

\* The object-valued fields of each type. Every list is a non-null list of
\* non-null items; a ForeignKey is non-null unless the column is null=True.
Schema ==
    [Query |->
        [project      |-> Field("Project", FALSE, FALSE),
         expense      |-> Field("Expense", FALSE, FALSE),
         projects     |-> Field("Project", TRUE, TRUE),
         projectsList |-> Field("Project", TRUE, TRUE),
         expenses     |-> Field("Expense", TRUE, TRUE),
         users        |-> Field("User", TRUE, TRUE)],
     Project |->
        [owner    |-> Field("User", FALSE, TRUE),
         expenses |-> Field("Expense", TRUE, TRUE)],
     Expense |->
        [owner   |-> Field("User", FALSE, TRUE),
         project |-> Field("Project", FALSE, FALSE)],
     User |->
        [projects |-> Field("Project", TRUE, TRUE),
         expenses |-> Field("Expense", TRUE, TRUE)],
     Mutation |->
        [projectUpdate |-> Field("ProjectUpdateMutation", FALSE, FALSE)],
     ProjectUpdateMutation |->
        [project |-> Field("Project", FALSE, TRUE)],
     RelayQuery |->
        [project  |-> Field("ProjectNode", FALSE, FALSE),
         expense  |-> Field("ExpenseNode", FALSE, FALSE),
         projects |-> Field("ProjectNode", TRUE, FALSE)],
     ProjectNode |->
        [owner    |-> Field("UserNode", FALSE, TRUE),
         expenses |-> Field("ExpenseNode", TRUE, TRUE)],
     ExpenseNode |->
        [owner   |-> Field("UserNode", FALSE, TRUE),
         project |-> Field("ProjectNode", FALSE, FALSE)],
     UserNode |->
        [projects |-> Field("ProjectNode", TRUE, TRUE),
         expenses |-> Field("ExpenseNode", TRUE, TRUE)]]

\* The types of tests/schema_relay.py, whose list fields are connections.
RelayNodeTypes == {"ProjectNode", "ExpenseNode", "UserNode"}

IsConnection(field) == field.list /\ field.type \in RelayNodeTypes

\* The rows' foreign keys.
Rows ==
    [u1 |-> [owner |-> "None", project |-> "None"],
     p1 |-> [owner |-> "u1", project |-> "None"],
     p2 |-> [owner |-> "u1", project |-> "None"],
     e1 |-> [owner |-> "u1", project |-> "p1"]]

\* The rows in primary-key order.
RowOrder == <<"u1", "p1", "p2", "e1">>

\* Model.objects.all(), and a related manager's rows.
AllRows(k) == SelectSeq(RowOrder, LAMBDA e : KindOf[e] = k)

RelatedRows(k, attr, id) ==
    SelectSeq(RowOrder, LAMBDA e : KindOf[e] = k /\ Rows[e][attr] = id)

Objects(ids) == [i \in DOMAIN ids |-> ModelObject(ids[i])]

QuerySet(k, ids) == [tag |-> "QuerySet", model |-> k, items |-> Objects(ids)]

\* The root value of an operation, and the object a mutation returns.
RootValue == [tag |-> "root"]

Payload(id) == [tag |-> "payload", project |-> id]

\* What the resolver of a list field that does not return a QuerySet may
\* return: list(...) in resolve_projects_list, or another iterable.
ListShapes == {"list", "tuple", "set", "iterator"}

\* next(root, info, **args): the field's resolver.
Resolver(type, name, root, q) ==
    IF type \in {"Query", "RelayQuery"} THEN
        CASE name = "project" ->
                IF q.id \in Entities /\ KindOf[q.id] = "project"
                THEN ModelObject(q.id) ELSE NoneValue
          [] name = "expense" ->
                IF q.id \in Entities /\ KindOf[q.id] = "expense"
                THEN ModelObject(q.id) ELSE NoneValue
          [] name = "projects" -> QuerySet("project", AllRows("project"))
          [] name = "projectsList" ->
                [tag |-> q.shape, items |-> Objects(AllRows("project"))]
          [] name = "expenses" -> QuerySet("expense", AllRows("expense"))
          [] name = "users" -> QuerySet("user", AllRows("user"))
    ELSE IF type = "Mutation" THEN Payload(q.id)
    ELSE IF type = "ProjectUpdateMutation" THEN ModelObject(root.project)
    ELSE IF name \in {"owner", "project"} THEN
        IF Rows[root.id][name] = "None"
        THEN NoneValue ELSE ModelObject(Rows[root.id][name])
    ELSE IF type \in {"Project", "ProjectNode"}
    THEN QuerySet("expense", RelatedRows("expense", "project", root.id))
    ELSE IF name = "projects" THEN QuerySet("project", RelatedRows("project", "owner", root.id))
    ELSE QuerySet("expense", RelatedRows("expense", "owner", root.id))

----------------------------------------------------------------------------
(* The requests of the tests *)

Request(operation, fields, id, shape) ==
    [operation |-> operation, fields |-> fields, id |-> id, shape |-> shape]

\* All paths below `top` that follow `tails`.
Below(top, tails) == {<<top>> \o t : t \in tails \cup {<<>>}}

ProjectSelection ==
    {<<"owner">>, <<"expenses">>, <<"expenses", "owner">>}

Queries ==
    {Request("Query", Below("projects", ProjectSelection), "None", "None")}
    \cup {Request("Query", Below("project", ProjectSelection), id, "None") :
            id \in {"p1", "p0"}}
    \cup {Request("Query",
                  Below("project", {<<"owner">>, <<"owner", "expenses">>,
                                    <<"owner", "expenses", "owner">>}),
                  "p1", "None")}
    \cup {Request("Query",
                  Below("expense", {<<"project">>, <<"project", "owner">>})
                  \cup sibling,
                  "e1", "None") :
            sibling \in {{}, {<<"users">>}}}
    \cup {Request("Query",
                  Below("projectsList", {<<"owner">>, <<"expenses">>}),
                  "None", shape) :
            shape \in ListShapes}
    \cup {Request("Mutation",
                  Below("projectUpdate", Below("project", ProjectSelection)),
                  "p1", "None")}
    \cup {Request("RelayQuery", Below("projects", ProjectSelection), "None", "None"),
          Request("RelayQuery", Below("project", ProjectSelection), "p1", "None")}

----------------------------------------------------------------------------
(* The query engine: it resolves each field through the middleware and   *)
(* assembles data and errors.                                              *)

\* The response-path names of list positions.
IndexName == <<"0", "1", "2", "3">>

Indices == {IndexName[i] : i \in DOMAIN IndexName}

IsPrefix(q, p) == Len(q) <= Len(p) /\ SubSeq(p, 1, Len(q)) = q

\* The field names of a response path.
QPath(path) == SelectSeq(path, LAMBDA x : x \notin Indices)

\* The type a path of field names leads to, and the field it ends in.
TypeAt(q, qpath) ==
    LET T[i \in 0..Len(qpath)] ==
            IF i = 0 THEN q.operation ELSE Schema[T[i - 1]][qpath[i]].type
    IN  T[Len(qpath)]

ParentType(q, qpath) == TypeAt(q, SubSeq(qpath, 1, Len(qpath) - 1))

FieldDesc(q, qpath) == Schema[ParentType(q, qpath)][qpath[Len(qpath)]]

\* Whether the position at `path` may hold null: the data itself may, an
\* item of a list may not, the node of an edge of a connection may, a field
\* may unless it is declared non-null.
Nullable(q, path) ==
    IF path = <<>> THEN TRUE
    ELSE IF path[Len(path)] \in Indices
    THEN IsConnection(FieldDesc(q, QPath(path)))
    ELSE ~FieldDesc(q, QPath(path)).nonNull

\* Where an error at `path` stops: the nearest position that may hold null.
NullTarget(q, path) ==
    LET n == CHOOSE n \in 0..Len(path) :
                /\ Nullable(q, SubSeq(path, 1, n))
                /\ \A m \in (n + 1)..Len(path) : ~Nullable(q, SubSeq(path, 1, m))
    IN  SubSeq(path, 1, n)

ObjectNode == [kind |-> "object"]
NullNode == [kind |-> "null"]
EntityNode(e) == [kind |-> "entity", id |-> e]
ListNode(n) == [kind |-> "list", len |-> n]
ConnectionNode(n) == [kind |-> "connection", edges |-> n]

\* `result` of a call of the middleware that has not reached line 38 yet.
NoResult == [tag |-> "unresolved"]

\* A field the engine has a call of the middleware for: its response path,
\* the root it is resolved on and the call's local variable `result`.
Task(path, root) == [path |-> path, root |-> root, result |-> NoResult]

\* The selected fields of the object at `path`, to resolve with it as root.
ChildTasks(q, path, root) ==
    {Task(path \o <<f>>, root) :
        f \in {g \in DOMAIN Schema[TypeAt(q, QPath(path))] :
                    QPath(path) \o <<g>> \in q.fields}}

HasItems(v) == v.tag \in {"QuerySet", "list", "tuple", "set", "iterator"}

\* The nodes a value contributes to the data at `path`.
Nodes(path, v) ==
    IF v.tag = "None" THEN (path :> NullNode)
    ELSE IF v.tag = "Model" THEN (path :> EntityNode(v.id))
    ELSE IF HasItems(v) THEN
        [p \in {path} \cup {path \o <<IndexName[i]>> : i \in DOMAIN v.items} |->
            IF p = path
            THEN IF IsConnection(FieldDesc(query, QPath(path)))
                 THEN ConnectionNode(Len(v.items))
                 ELSE ListNode(Len(v.items))
            ELSE LET i == CHOOSE i \in DOMAIN v.items : p = path \o <<IndexName[i]>>
                 IN  EntityNode(v.items[i].id)]
    ELSE (path :> ObjectNode)

\* The fields to resolve below a value at `path`.
Subtasks(q, path, v) ==
    IF v.tag = "None" THEN {}
    ELSE IF HasItems(v) THEN
        UNION {ChildTasks(q, path \o <<IndexName[i]>>, v.items[i]) : i \in DOMAIN v.items}
    ELSE ChildTasks(q, path, v)

NullMessage == "Cannot return null for non-nullable field"

\* A field error: it is recorded with the field's path, the nearest position
\* that may be null becomes null, and everything below it is dropped.
FieldError(t, message) ==
    LET target == NullTarget(query, t.path)
        kept == {p \in DOMAIN response : ~IsPrefix(target, p)}
    IN  /\ errors' = Append(errors, [message |-> message, path |-> t.path])
        /\ response' = [p \in kept \cup {target} |->
                            IF p = target THEN NullNode ELSE response[p]]
        /\ todo' = {u \in todo : ~IsPrefix(target, u.path)}

\* The value the middleware returned becomes the field's data and the root of
\* its child fields.
CompleteValue(t, v, nonNull) ==
    IF v.tag = "None" /\ nonNull
    THEN FieldError(t, NullMessage)
    ELSE /\ response' = Nodes(t.path, v) @@ response
         /\ todo' = (todo \ {t}) \cup Subtasks(query, t.path, v)
         /\ UNCHANGED errors

Idle == [state |-> "idle"]

Init ==
    /\ InitPerms
    /\ call = Idle
    /\ query \in Queries
    /\ todo = ChildTasks(query, <<>>, RootValue)
    /\ response = (<<>> :> ObjectNode)
    /\ errors = <<>>
    /\ written = {}
    /\ log = {}
    /\ nextCalls = <<>>

\* Faulty variant: `result` is kept on the middleware instance, where the
\* call for another field in flight overwrites it.
local_result_on_instance(t) ==
    LET others == {u \in todo : u # t /\ u.result # NoResult}
    IN  IF others = {} THEN t.result
        ELSE (CHOOSE u \in others : TRUE).result

\* The local variable `result` of the call for field t (line 38).
local_result(t) == t.result

\* Faulty variant: next is called a second time for the value to return.
next_calls_again(t) == 2

\* How many times the call for field t runs next(root, info, **args): line 38
\* is the only place, outside every branch.
next_calls(t) == 1

\* Line 38 of the call for a pending field: next(root, info, **args) runs the
\* field's resolver; the resolver of a mutation saves the row before it
\* returns. Calls for other fields may be anywhere between their lines 38
\* and 89 meanwhile.
CallNext(t) ==
    LET qpath == QPath(t.path)
        type == ParentType(query, qpath)
        value == Resolver(type, qpath[Len(qpath)], t.root, query)
        before == IF t.path \in DOMAIN nextCalls THEN nextCalls[t.path] ELSE 0
    IN  /\ t.result = NoResult
        /\ todo' = (todo \ {t}) \cup {[t EXCEPT !.result = value]}
        /\ written' = IF type = "Mutation" THEN written \cup {query.id} ELSE written
        /\ nextCalls' = (t.path :> before + next_calls(t)) @@ nextCalls
        /\ UNCHANGED <<call, query, response, errors, log>>
        /\ UNCHANGED permVars

\* Faulty variant: every model object the backend was queried about is kept
\* with the user as an object-level permission.
AuthorizeResult_keeps_answers(t) ==
    LET desc == FieldDesc(query, QPath(t.path))
        done == Done(local_result(t), desc.nonNull)
    IN  /\ t.result # NoResult
        /\ call' = done @@ [path |-> t.path, root |-> t.root]
        /\ log' = log \cup {[path    |-> t.path,
                              root    |-> t.root,
                              value   |-> done.value,
                              nonNull |-> done.nonNull,
                              outcome |-> done.outcome]}
        /\ IF done.outcome.kind = "raise"
           THEN FieldError(t, done.outcome.message)
           ELSE CompleteValue(t, done.outcome.value, desc.nonNull)
        /\ objPerms' = objPerms \cup
                {<<done.checks[i].perm, done.checks[i].obj>> :
                    i \in {j \in DOMAIN done.checks : done.checks[j].obj # NoObj}}
        /\ UNCHANGED <<modelPerms, failing>>
        /\ UNCHANGED <<query, written, nextCalls>>

\* Lines 40-89 of the call for a field whose resolver has returned, and the
\* engine's completion of what the call returns or raises.
AuthorizeResult(t) ==
    LET desc == FieldDesc(query, QPath(t.path))
        done == Done(local_result(t), desc.nonNull)
    IN  /\ t.result # NoResult
        /\ call' = done @@ [path |-> t.path, root |-> t.root]
        /\ log' = log \cup {[path    |-> t.path,
                              root    |-> t.root,
                              value   |-> done.value,
                              nonNull |-> done.nonNull,
                              outcome |-> done.outcome]}
        /\ IF done.outcome.kind = "raise"
           THEN FieldError(t, done.outcome.message)
           ELSE CompleteValue(t, done.outcome.value, desc.nonNull)
        /\ UNCHANGED permVars
        /\ UNCHANGED <<query, written, nextCalls>>

Next ==
    \/ \E t \in todo : CallNext(t)
    \/ \E t \in todo : AuthorizeResult(t)

Spec == Init /\ [][Next]_vars

----------------------------------------------------------------------------
(* Vocabulary of the properties *)

\* The name of the view permission of each model, as the tests grant it.
ViewPermName ==
    [project |-> "tests.view_project",
     expense |-> "tests.view_expense",
     user    |-> "auth.view_user"]

ModelLevel(k) == ViewPermName[k] \in modelPerms

InstanceLevel(e) == <<ViewPermName[KindOf[e]], e>> \in objPerms

Granted(e) == ModelLevel(KindOf[e]) \/ InstanceLevel(e)

IsEntity(m) == m.tag = "Model"

IsCollectionTag(t) == t \in {"QuerySet", "list", "tuple", "set"}

\* The value is a QuerySet of model k, or a list, tuple or set holding only
\* rows of model k.
CollectionOf(v, k) ==
    \/ v.tag = "QuerySet" /\ v.model = k
    \/ /\ v.tag \in {"list", "tuple", "set"}
       /\ Len(v.items) > 0
       /\ \A i \in DOMAIN v.items : IsEntity(v.items[i]) /\ KindOf[v.items[i].id] = k

\* out holds exactly the members of in that satisfy Keep, in in's order.
IsOrderedFilter(out, in, Keep(_)) ==
    \E f \in [DOMAIN out -> DOMAIN in] :
        /\ \A i, j \in DOMAIN out : i < j => f[i] < f[j]
        /\ \A i \in DOMAIN out : out[i] = in[f[i]]
        /\ \A j \in DOMAIN in : Keep(in[j]) <=> \E i \in DOMAIN out : f[i] = j

CallDone == call.state = "done"

Returned(v) == call.outcome = [kind |-> "return", value |-> v]

----------------------------------------------------------------------------
(* Properties of a request executed by the engine *)

PermissionDeniedAt(path) ==
    [message |-> "You do not have permission to access this field", path |-> path]

\* The step resolves a field: the middleware has been called on a new path.
FieldResolved == call'.state = "done" /\ call' # call

\* C1: when a single entity is resolved on a non-null field and the principal
\* has neither model-level nor instance-level view permission on it, the
\* field fails with PermissionDenied and its message, the error is reported
\* at the field's response path, and no value is handed to the engine.
C1_NonNullDeniedFails ==
    (CallDone /\ IsEntity(call.value) /\ call.nonNull /\ ~Granted(call.value.id))
        => /\ call.outcome.kind = "raise"
           /\ call.outcome.error = "PermissionDenied"
           /\ call.outcome.message = "You do not have permission to access this field"
           /\ \E i \in DOMAIN errors : errors[i] = PermissionDeniedAt(call.path)
           /\ call.path \notin DOMAIN response

C1_Witness ==
    /\ CallDone /\ IsEntity(call.value) /\ call.nonNull
    /\ ~Granted(call.value.id)
    /\ call.path = <<"expense", "project", "owner">>
    /\ Len(errors) = 1

\* C8: once every field of the request has gone through the middleware,
\* every entity in the response, at any depth, as a field's value or as a
\* member of a list, is one the principal has model-level view permission
\* for or instance-level view permission on.
C8_ResponseHoldsOnlyGrantedEntities ==
    todo = {} =>
        \A p \in DOMAIN response :
            response[p].kind = "entity" => Granted(response[p].id)

\* C9: when a single entity on a non-null field below a nullable ancestor
\* field is denied, exactly one error is added, with the full path of the
\* denied field; the nearest nullable ancestor field becomes null; the data
\* outside that ancestor stays; and the response's data is not null.
C9_DeniedNonNullNullsNearestNullableAncestor ==
    [][(/\ FieldResolved
        /\ IsEntity(call'.value) /\ call'.nonNull /\ ~Granted(call'.value.id)
        /\ NullTarget(query, call'.path) # <<>>)
        => LET path == call'.path
               ancestor == NullTarget(query, path)
           IN  /\ errors' = Append(errors, PermissionDeniedAt(path))
               /\ Cardinality({i \in DOMAIN errors' : errors'[i].path = path}) = 1
               /\ QPath(path) \in query.fields
               /\ Len(ancestor) < Len(path)
               /\ response'[ancestor] = [kind |-> "null"]
               /\ \A p \in DOMAIN response :
                    ~IsPrefix(ancestor, p)
                        => p \in DOMAIN response' /\ response'[p] = response[p]
               /\ \A p \in DOMAIN response' :
                    IsPrefix(ancestor, p) => p = ancestor
               /\ response'[<<>>] = [kind |-> "object"]]_vars

\* The request of test_nonnullable_foreign_key_raises_error_without_permission_to_model
\* and its response.
C9_Witness ==
    /\ todo = {}
    /\ modelPerms = {"tests.view_project", "tests.view_expense"}
    /\ objPerms = {}
    /\ errors = <<PermissionDeniedAt(<<"expense", "project", "owner">>)>>
    /\ DOMAIN response = {<<>>, <<"expense">>, <<"expense", "project">>, <<"users">>}
    /\ response[<<"expense">>] = [kind |-> "entity", id |-> "e1"]
    /\ response[<<"expense", "project">>] = [kind |-> "null"]
    /\ response[<<"users">>] = [kind |-> "list", len |-> 0]

----------------------------------------------------------------------------
(* Properties of one call of the middleware *)

\* C2: a single entity the principal has neither model-level nor
\* instance-level view permission on, resolved on a nullable field, becomes
\* null and no error is produced.
C2_NullableDeniedIsNull ==
    (CallDone /\ IsEntity(call.value) /\ ~call.nonNull /\ ~Granted(call.value.id))
        => Returned([tag |-> "None"])

C2_Witness ==
    /\ CallDone /\ IsEntity(call.value) /\ ~call.nonNull
    /\ ~Granted(call.value.id)
    /\ call.outcome.kind = "return"

\* C3: a single entity the principal has model-level view permission for, or
\* instance-level view permission on, is handed on unchanged with no error, on
\* a nullable and on a non-null field.
C3_GrantedPassesThrough ==
    (CallDone /\ IsEntity(call.value) /\ Granted(call.value.id))
        => Returned(call.value)

C3_Witness ==
    /\ CallDone /\ IsEntity(call.value) /\ call.nonNull
    /\ ~ModelLevel(KindOf[call.value.id]) /\ InstanceLevel(call.value.id)
    /\ call.outcome.kind = "return"

\* C4: a collection of model K, for a principal without model-level view
\* permission for K, becomes the list of exactly those members the
\* instance-level check is true for, in their original order.
C4_CollectionFilteredByInstance ==
    \A k \in Kinds :
        (CallDone /\ CollectionOf(call.value, k) /\ ~ModelLevel(k))
            => /\ call.outcome.kind = "return"
               /\ call.outcome.value.tag = "list"
               /\ IsOrderedFilter(call.outcome.value.items, call.value.items,
                                  LAMBDA m : InstanceLevel(m.id))

C4_Witness ==
    /\ CallDone /\ call.value.tag = "QuerySet" /\ ~ModelLevel(call.value.model)
    /\ Len(call.value.items) = 2
    /\ ~InstanceLevel(call.value.items[1].id) /\ InstanceLevel(call.value.items[2].id)
    /\ call.outcome.kind = "return" /\ Len(call.outcome.value.items) = 1

\* C5: a field whose value is a collection never fails with a permission
\* error, nullable or not; without model-level permission for the model and
\* without instance-level permission on any member the outcome is the empty
\* list.
C5_CollectionNeverFails ==
    (CallDone /\ IsCollectionTag(call.value.tag))
        => /\ call.outcome.kind = "return"
           /\ \A k \in Kinds :
                (/\ CollectionOf(call.value, k)
                 /\ ~ModelLevel(k)
                 /\ \A i \in DOMAIN call.value.items : ~InstanceLevel(call.value.items[i].id))
                    => Returned([tag |-> "list", items |-> <<>>])

C5_Witness ==
    /\ CallDone /\ call.value.tag = "QuerySet" /\ call.nonNull
    /\ Len(call.value.items) = 2
    /\ modelPerms = {} /\ objPerms = {}
    /\ call.outcome.kind = "return"

\* C6: with model-level view permission for K, an entity of model K and a
\* collection of model K are handed on with every member present, in order,
\* whatever the instance-level checks answer.
C6_ModelLevelPassesEverything ==
    \A k \in Kinds :
        (CallDone /\ ModelLevel(k))
            => /\ (IsEntity(call.value) /\ KindOf[call.value.id] = k)
                    => Returned(call.value)
               /\ (call.value.tag = "QuerySet" /\ call.value.model = k)
                    => Returned(call.value)
               /\ CollectionOf(call.value, k)
                    => /\ call.outcome.kind = "return"
                       /\ call.outcome.value.items = call.value.items

C6_Witness ==
    /\ CallDone /\ call.value.tag = "QuerySet" /\ ModelLevel(call.value.model)
    /\ Len(call.value.items) = 2
    /\ objPerms = {}
    /\ call.outcome.kind = "return"

\* C7: of a list, tuple or set, every member that is not an entity is kept,
\* an entity member is kept exactly when the principal has model-level view
\* permission for its model or instance-level view permission on it, the
\* order of the kept members is preserved, and no error is raised.
C7_SequenceFilteredPerMember ==
    (CallDone /\ call.value.tag \in {"list", "tuple", "set"})
        => /\ call.outcome.kind = "return"
           /\ IsOrderedFilter(call.outcome.value.items, call.value.items,
                              LAMBDA m : ~IsEntity(m) \/ Granted(m.id))

C7_Witness ==
    /\ CallDone /\ call.value.tag = "tuple" /\ call.nonNull
    /\ Len(call.value.items) = 2
    /\ IsEntity(call.value.items[1]) /\ ~Granted(call.value.items[1].id)
    /\ ~IsEntity(call.value.items[2])
    /\ call.outcome.kind = "return" /\ Len(call.outcome.value.items) = 1

\* C10: PermissionDenied is raised only for a single entity the principal is
\* denied on, on a non-null field; no other value, permission or nullability
\* raises a permission error.
C10_RaiseOnlyDeniedNonNullEntity ==
    (CallDone /\ call.outcome.kind = "raise")
        => /\ IsEntity(call.value)
           /\ call.nonNull
           /\ ~Granted(call.value.id)
           /\ call.outcome.error = "PermissionDenied"

C10_Witness ==
    /\ CallDone /\ call.outcome.kind = "raise"
    /\ call.outcome.error = "PermissionDenied"

\* C11: on a non-null field whose resolver produced an entity or a
\* collection, the middleware never hands None to the engine: the call
\* fails, or returns the entity itself, which the principal is granted, or
\* returns a list or the collection.
C11_NonNullNeverGetsNone ==
    (/\ CallDone /\ call.nonNull
     /\ (IsEntity(call.value) \/ IsCollectionTag(call.value.tag)))
        => \/ call.outcome.kind = "raise"
           \/ /\ call.outcome.kind = "return"
              /\ call.outcome.value # NoneValue
              /\ IF IsEntity(call.value)
                 THEN Returned(call.value) /\ Granted(call.value.id)
                 ELSE call.outcome.value.tag \in {"list", "QuerySet"}

C11_Witness ==
    /\ CallDone /\ call.nonNull /\ IsEntity(call.value)
    /\ ~Granted(call.value.id)
    /\ call.outcome.kind = "raise"

\* C12: a QuerySet of model K and a plain list holding the same rows of
\* model K in the same order keep the same members in the same order,
\* whatever the model-level and instance-level permissions are.
C12_ListAndQuerySetKeepTheSame ==
    /\ (CallDone /\ call.value.tag = "QuerySet")
        => LET asList == resolve(ListOf(call.value.items), call.nonNull)
           IN  /\ call.outcome.kind = "return" /\ asList.kind = "return"
               /\ call.outcome.value.items = asList.value.items
    /\ \A k \in Kinds :
        (CallDone /\ call.value.tag = "list" /\ CollectionOf(call.value, k))
        => LET asQuerySet == resolve([tag |-> "QuerySet", model |-> k,
                                      items |-> call.value.items], call.nonNull)
           IN  /\ call.outcome.kind = "return" /\ asQuerySet.kind = "return"
               /\ call.outcome.value.items = asQuerySet.value.items

C12_Witness ==
    /\ CallDone /\ call.value.tag = "QuerySet" /\ ModelLevel(call.value.model)
    /\ Len(call.value.items) = 2
    /\ \A i \in DOMAIN call.value.items : ~InstanceLevel(call.value.items[i].id)
    /\ Len(call.outcome.value.items) = 2

\* C13: calling the middleware again, for the same user and field, on the
\* value a first call returned (None, a filtered list, an entity or a
\* collection handed through) returns that value unchanged and raises no
\* error.
C13_ResolveIsIdempotent ==
    (CallDone /\ call.outcome.kind = "return")
        => resolve(call.outcome.value, call.nonNull) = Return(call.outcome.value)

C13_Witness ==
    /\ CallDone /\ call.value.tag = "QuerySet" /\ ~ModelLevel(call.value.model)
    /\ Len(call.value.items) = 2
    /\ call.outcome.kind = "return"
    /\ call.outcome.value.tag = "list" /\ Len(call.outcome.value.items) = 1

\* C14: a field whose resolver produced a QuerySet costs exactly one
\* database query, whether the QuerySet is handed through with the
\* model-level permission, filtered to nothing without any permission, or
\* filtered by instance-level permissions.
C14_QuerySetIsFetchedOnce ==
    (CallDone /\ call.value.tag = "QuerySet") => call.fetches = 1

C14_Witness ==
    /\ CallDone /\ call.value.tag = "QuerySet" /\ ~ModelLevel(call.value.model)
    /\ Len(call.value.items) = 2
    /\ InstanceLevel(call.value.items[1].id) /\ ~InstanceLevel(call.value.items[2].id)
    /\ call.fetches = 1

----------------------------------------------------------------------------
(* Properties of the permission names *)

\* C19: for one action, two models that differ in app label or in model
\* name never get the same permission name "<app_label>.<action>_<model_name>".
C19_PermissionNamesAreDistinct ==
    (call.state = "named" /\ call.first # call.second)
        => call.names[1] # call.names[2]

C19_Witness ==
    /\ call.state = "named" /\ call.action = "view"
    /\ call.first = [app_label |-> "a", model_name |-> "view_b"]
    /\ call.second = [app_label |-> "a_view", model_name |-> "b"]
    /\ call.names = <<"a.view_view_b", "a_view.view_b">>

----------------------------------------------------------------------------
(* Properties of one call of the middleware while a backend raises *)

\* C18: when a backend raises on a has_perm query the middleware issues for
\* a field, the call fails with the backend's error: the outcome is not
\* None, not a list, not the value handed through and not PermissionDenied.
C18_BackendErrorPropagates ==
    (CallDone /\ \E i \in DOMAIN call.checks : call.checks[i] \in failing)
        => /\ call.outcome.kind = "raise"
           /\ call.outcome.error = "BackendError"
           /\ call.outcome.message = BackendErrorMessage

C18_Witness ==
    /\ CallDone /\ call.value.tag = "QuerySet" /\ ~call.nonNull
    /\ Len(call.value.items) = 2
    /\ ~ModelLevel(call.value.model)
    /\ failing = {[perm |-> ViewPermName[call.value.model],
                   obj |-> call.value.items[2].id]}
    /\ Len(call.checks) = 3
    /\ call.outcome.kind = "raise" /\ call.outcome.error = "BackendError"

----------------------------------------------------------------------------
(* Properties of a request whose fields are in flight together *)

\* The principal has no view permission for model k, on no row.
NoPermissionFor(k) ==
    /\ ~ModelLevel(k)
    /\ \A e \in Entities : KindOf[e] = k => ~InstanceLevel(e)

MutationDone == query.operation = "Mutation" /\ todo = {}

\* C15, as claimed: whenever the principal lacks the view permission for a
\* model the mutation's response asks for, the row is saved and the
\* response carries no error.
C15_MutationNeverReportsDenial ==
    (MutationDone /\ \E k \in Kinds : NoPermissionFor(k))
        => written = {query.id} /\ errors = <<>>

\* C15, amended: the mutation saves the row whatever the permissions are.
\* When the principal is granted the updated project and its owner, the
\* response carries no error, holds both, and lists exactly the expenses the
\* principal is granted: the empty list without any permission for
\* expenses. When the project or its owner is denied, which are non-null
\* fields, the response carries PermissionDenied errors and projectUpdate
\* is null.
C15_MutationResponseIsAuthorized ==
    MutationDone
        => LET payload == <<"projectUpdate">>
               project == <<"projectUpdate", "project">>
               owner == <<"projectUpdate", "project", "owner">>
               expenses == <<"projectUpdate", "project", "expenses">>
           IN  /\ written = {query.id}
               /\ IF Granted(query.id) /\ Granted(Rows[query.id].owner)
                  THEN /\ errors = <<>>
                       /\ response[project] = EntityNode(query.id)
                       /\ response[owner] = EntityNode(Rows[query.id].owner)
                       /\ response[expenses].kind = "list"
                       /\ NoPermissionFor("expense") => response[expenses] = ListNode(0)
                       /\ \A p \in DOMAIN response :
                            response[p].kind = "entity" => Granted(response[p].id)
                  ELSE /\ errors # <<>>
                       /\ \A i \in DOMAIN errors :
                            /\ errors[i].message = PermissionDeniedMessage
                            /\ IsPrefix(project, errors[i].path)
                       /\ response[payload] = NullNode
                       /\ DOMAIN response = {<<>>, payload}

C15_Witness ==
    /\ MutationDone
    /\ modelPerms = {"tests.view_project", "auth.view_user"}
    /\ objPerms = {}
    /\ written = {"p1"}
    /\ errors = <<>>
    /\ response[<<"projectUpdate", "project", "expenses">>] = ListNode(0)

\* C16: for a principal with the model-level view permission for the parent
\* models (Project, User) and no permission for the child model (Expense),
\* every list of projects or users in the response holds every row the
\* field's resolver produced, every list of expenses, at any depth, is
\* empty, and there is no error.
C16_NestedListDecidedByItsOwnModel ==
    (/\ ModelLevel("project") /\ ModelLevel("user")
     /\ NoPermissionFor("expense"))
        => /\ errors = <<>>
           /\ \A p \in DOMAIN response :
                response[p].kind = "list"
                    => IF FieldDesc(query, QPath(p)).type = "Expense"
                       THEN response[p] = ListNode(0)
                       ELSE \E c \in log :
                            /\ c.path = p
                            /\ response[p] = ListNode(Len(c.value.items))
                            /\ \A i \in DOMAIN c.value.items :
                                 response[p \o <<IndexName[i]>>]
                                    = EntityNode(c.value.items[i].id)

C16_Witness ==
    /\ todo = {}
    /\ query.fields = Below("projects", ProjectSelection)
    /\ modelPerms = {"tests.view_project", "auth.view_user"}
    /\ objPerms = {}
    /\ errors = <<>>
    /\ response[<<"projects">>] = ListNode(2)
    /\ response[<<"projects", "0", "expenses">>] = ListNode(0)
    /\ response[<<"projects", "1", "expenses">>] = ListNode(0)

----------------------------------------------------------------------------
(* Properties of the has_perm queries of one call *)

IsSequenceTag(t) == t \in {"list", "tuple", "set"}

\* The positions of a sequence that satisfy Test.
Positions(seq, Test(_)) == {i \in DOMAIN seq : Test(seq[i])}

ModelLevelQuery(k) == [perm |-> ViewPermName[k], obj |-> NoObj]

InstanceLevelQuery(e) == [perm |-> ViewPermName[KindOf[e]], obj |-> e]

\* C22, as claimed: of a list, tuple or set, every member that is an entity
\* gets an instance-level query, with or without the model-level permission
\* for its model.
C22_InstanceQueryForEveryEntityMember ==
    (CallDone /\ IsSequenceTag(call.value.tag))
        => \A i \in DOMAIN call.value.items :
            IsEntity(call.value.items[i])
                => \E j \in DOMAIN call.checks :
                    call.checks[j] = InstanceLevelQuery(call.value.items[i].id)

\* C22, amended: of a list, tuple or set, every member that is an entity
\* gets a model-level query of its own, one per member, and an
\* instance-level query follows exactly for the members whose model-level
\* query is false; no other query is issued.
C22_SequenceQueriesPerMember ==
    (CallDone /\ IsSequenceTag(call.value.tag))
        => LET items == call.value.items
               entities == Positions(items, IsEntity)
               denied == {i \in entities : ~ModelLevel(KindOf[items[i].id])}
           IN  /\ \A k \in Kinds :
                    Cardinality(Positions(call.checks,
                                          LAMBDA c : c = ModelLevelQuery(k)))
                        = Cardinality({i \in entities : KindOf[items[i].id] = k})
               /\ \A e \in Entities :
                    Cardinality(Positions(call.checks,
                                          LAMBDA c : c = InstanceLevelQuery(e)))
                        = Cardinality({i \in denied : items[i].id = e})
               /\ Len(call.checks) = Cardinality(entities) + Cardinality(denied)

C22_Witness ==
    /\ CallDone /\ call.value.tag = "list"
    /\ Len(call.value.items) = 2
    /\ \A i \in DOMAIN call.value.items :
        IsEntity(call.value.items[i]) /\ KindOf[call.value.items[i].id] = "project"
    /\ ModelLevel("project")
    /\ call.checks = <<ModelLevelQuery("project"), ModelLevelQuery("project")>>

\* C23: for a QuerySet of a model the principal has the model-level view
\* permission for, the call issues the one model-level query and no
\* instance-level query, whatever the number of rows, and does not iterate
\* over the QuerySet.
C23_ModelLevelQuerySetCostsOneQuery ==
    (CallDone /\ call.value.tag = "QuerySet" /\ ModelLevel(call.value.model))
        => /\ call.checks = <<ModelLevelQuery(call.value.model)>>
           /\ call.iterations = 0
           /\ Returned(call.value)

C23_Witness ==
    /\ CallDone /\ call.value.tag = "QuerySet" /\ ModelLevel(call.value.model)
    /\ Len(call.value.items) = 2
    /\ Len(call.checks) = 1 /\ call.iterations = 0

HoldsEntities(m) ==
    /\ ~IsEntity(m)
    /\ "items" \in DOMAIN m
    /\ \E i \in DOMAIN m.items : IsEntity(m.items[i])

\* C30: of a list, tuple or set, a member that is not an entity but holds
\* one is kept with the entity in it, and no has_perm query is about that
\* entity: the queries are those of the top-level entity members only.
C30_NestedEntitiesAreNotChecked ==
    (CallDone /\ IsSequenceTag(call.value.tag))
        => LET items == call.value.items
               holders == Positions(items, HoldsEntities)
               top == {items[i].id : i \in Positions(items, IsEntity)}
           IN  /\ call.outcome.kind = "return"
               /\ SelectSeq(call.outcome.value.items, HoldsEntities)
                    = SelectSeq(items, HoldsEntities)
               /\ \A j \in DOMAIN call.checks :
                    \/ call.checks[j].obj \in top
                    \/ /\ call.checks[j].obj = NoObj
                       /\ \E e \in top :
                            call.checks[j] = ModelLevelQuery(KindOf[e])
               /\ top = {} => call.checks = <<>>

C30_Witness ==
    /\ CallDone /\ call.value.tag = "list"
    /\ Len(call.value.items) = 1
    /\ HoldsEntities(call.value.items[1])
    /\ modelPerms = {} /\ objPerms = {}
    /\ Returned(call.value)
    /\ call.checks = <<>>

----------------------------------------------------------------------------
(* Properties of the order of resolver, middleware and child fields *)

\* The fields the engine has called the middleware for, finished or in
\* flight, each with the root it is resolved on.
FieldsSeen == {<<c.path, c.root>> : c \in log} \cup {<<t.path, t.root>> : t \in todo}

\* Every response path, call and pending field strictly below `path`.
PathsUnder(path) ==
    {p \in DOMAIN response \cup {f[1] : f \in FieldsSeen} :
        IsPrefix(path, p) /\ p # path}

\* C24: the root of every child field is what the call for its parent field
\* returned: the entity itself, or the member at its position in the
\* returned list. Below a field whose call returned None there is no field
\* and no data; below an entity field or a list the middleware filters,
\* every child field's root is an entity the principal is granted.
C24_ChildrenResolveOnTheOutcome ==
    /\ \A a \in log :
        (a.outcome.kind = "return" /\ a.outcome.value = NoneValue)
            => PathsUnder(a.path) = {}
    /\ \A f \in FieldsSeen :
        Len(f[1]) > 1
            => LET above == SubSeq(f[1], 1, Len(f[1]) - 1)
                   isItem == above[Len(above)] \in Indices
                   parent == IF isItem THEN SubSeq(above, 1, Len(above) - 1) ELSE above
               IN  \E a \in log :
                    /\ a.path = parent
                    /\ a.outcome.kind = "return"
                    /\ IF isItem
                       THEN \E i \in DOMAIN a.outcome.value.items :
                                /\ IndexName[i] = above[Len(above)]
                                /\ a.outcome.value.items[i] = f[2]
                       ELSE a.outcome.value = f[2]
                    /\ (IsEntity(a.value) \/ IsCollectionTag(a.value.tag))
                            => Granted(f[2].id)

C24_Witness ==
    /\ todo = {}
    /\ query.fields = Below("project", ProjectSelection) /\ query.id = "p1"
    /\ modelPerms = {"tests.view_expense", "auth.view_user"}
    /\ objPerms = {}
    /\ Cardinality(log) = 1
    /\ DOMAIN response = {<<>>, <<"project">>}
    /\ response[<<"project">>] = NullNode
    /\ errors = <<>>

\* C25: a call of the middleware, whether it hands the value on, returns
\* None or a filtered list, or raises, leaves the permissions the backends
\* hold for the user and the rows of the database as they were.
C25_CallOnlyReads ==
    [][FieldResolved
        => /\ modelPerms' = modelPerms
           /\ objPerms' = objPerms
           /\ failing' = failing
           /\ written' = written]_vars

C25_Witness ==
    /\ CallDone /\ call.outcome.kind = "return"
    /\ call.value.tag = "QuerySet" /\ call.outcome.value.tag = "list"
    /\ Len(call.value.items) = 2 /\ Len(call.outcome.value.items) = 1
    /\ objPerms = {<<"tests.view_project", "p2">>}

\* C26: the resolver of a field runs once, and before the call issues any
\* has_perm query or decides anything; the decision, whatever it is, leaves
\* what the resolver did in place, so a mutation's row stays saved.
C26_ResolverRunsOnceAndFirst ==
    [][/\ \A p \in DOMAIN nextCalls' : nextCalls'[p] = 1
       /\ FieldResolved
            => /\ call'.path \in DOMAIN nextCalls
               /\ nextCalls[call'.path] = 1
               /\ \A c \in log : c.path # call'.path
               /\ nextCalls' = nextCalls
               /\ written' = written
               /\ query.operation = "Mutation" => written' = {query.id}]_vars

C26_Witness ==
    /\ MutationDone
    /\ ~Granted("p1")
    /\ written = {"p1"}
    /\ DOMAIN nextCalls = {<<"projectUpdate">>, <<"projectUpdate", "project">>}
    /\ response[<<"projectUpdate">>] = NullNode
    /\ Len(errors) = 1

----------------------------------------------------------------------------
(* Properties of a request on the relay schema *)

ModelOfNode == [ProjectNode |-> "project", ExpenseNode |-> "expense", UserNode |-> "user"]

\* C21: on the relay schema, a connection over a model the principal has no
\* view permission for, at the top level or below a parent the principal
\* may view, has no edges, and no error is reported for it or below it.
C21_DeniedConnectionHasNoEdges ==
    \A p \in DOMAIN response :
        (/\ response[p].kind = "connection"
         /\ NoPermissionFor(ModelOfNode[FieldDesc(query, QPath(p)).type]))
            => /\ response[p] = ConnectionNode(0)
               /\ \A q \in DOMAIN response : IsPrefix(p, q) => q = p
               /\ \A i \in DOMAIN errors : ~IsPrefix(p, errors[i].path)

C21_Witness ==
    /\ todo = {}
    /\ query.operation = "RelayQuery"
    /\ query.fields = Below("projects", ProjectSelection)
    /\ modelPerms = {"tests.view_project", "auth.view_user"}
    /\ objPerms = {}
    /\ errors = <<>>
    /\ response[<<"projects">>] = ConnectionNode(2)
    /\ response[<<"projects", "0", "expenses">>] = ConnectionNode(0)
    /\ response[<<"projects", "1", "expenses">>] = ConnectionNode(0)

----------------------------------------------------------------------------
(* The same field resolved for two principals, the second holding more *)

\* A permission for an action other than view, at model and at object level.
OtherActionPermission == get_permission_for_model("project", "change")

OtherActionGrants == {<<OtherActionPermission, "p1">>}

\* An entity, a QuerySet, a list of entities, None, a scalar.
ComparedValues ==
    ModelObjects
    \cup {v \in QuerySets : WellFormedQuerySet(v)}
    \cup {ListOf(s) : s \in SeqsUpTo(ModelObjects, MaxLen)}
    \cup {NoneValue, ScalarValue}

\* The fields compared: an entity field is nullable or non-null; the return
\* type is read for an entity only, so the other fields are taken nullable.
ComparedCalls ==
    {Pending(v, n) : v \in ModelObjects, n \in BOOLEAN}
    \cup {Pending(v, FALSE) : v \in ComparedValues}

InitCompare ==
    /\ InitPerms
    /\ call \in ComparedCalls
    /\ query = NoQuery
    /\ todo = {}
    /\ response = <<>>
    /\ errors = <<>>
    /\ written = {}
    /\ log = {}
    /\ nextCalls = <<>>

\* The field is resolved again, to the same value, for a principal that
\* holds the model-level permissions ms and the object-level permissions os
\* on top of those of the first one.
InterceptWithMore(ms, os) ==
    /\ call.state = "done"
    /\ ms # {} \/ os # {}
    /\ ms \cap modelPerms = {}
    /\ os \cap objPerms = {}
    /\ modelPerms' = modelPerms \cup ms
    /\ objPerms' = objPerms \cup os
    /\ UNCHANGED failing
    /\ \E v \in {call.value}, n \in {call.nonNull} :
        call' = [state   |-> "again",
                 value   |-> v,
                 nonNull |-> n,
                 before  |-> call.outcome,
                 outcome |-> resolve(v, n)',
                 more    |-> [model |-> ms, obj |-> os]]
    /\ UNCHANGED engineVars

GrantView ==
    \E ms \in SUBSET ViewPermissions, os \in SUBSET ObjectGrants :
        InterceptWithMore(ms, os)

GrantOtherAction ==
    \E ms \in SUBSET {OtherActionPermission}, os \in SUBSET OtherActionGrants :
        InterceptWithMore(ms, os)

NextCompare ==
    \/ Intercept
    \/ GrantView
    \/ GrantOtherAction

SpecCompare == InitCompare /\ [][NextCompare]_vars

ComparedTwice == call.state = "again"

\* The members of a collection the outcome holds.
RetainedMembers(outcome) ==
    IF outcome.kind = "return" /\ outcome.value.tag \in {"QuerySet", "list"}
    THEN {outcome.value.items[i] : i \in DOMAIN outcome.value.items}
    ELSE {}

\* C28: when the second principal holds every model-level and object-level
\* permission the first one holds, for the same value and field a field that
\* did not fail for the first does not fail for the second, a value handed
\* on as it is for the first is handed on as it is for the second, and every
\* member retained for the first is retained for the second.
C28_MorePermissionsRetainMore ==
    ComparedTwice =>
        /\ call.before.kind = "return" => call.outcome.kind = "return"
        /\ call.before = Return(call.value) => call.outcome = Return(call.value)
        /\ RetainedMembers(call.before) \subseteq RetainedMembers(call.outcome)

C28_Witness ==
    /\ ComparedTwice
    /\ call.value = [tag |-> "QuerySet", model |-> "project",
                     items |-> <<ModelObject("p1"), ModelObject("p2")>>]
    /\ call.more = [model |-> {}, obj |-> {<<"tests.view_project", "p2">>}]
    /\ call.before = Return(ListOf(<<ModelObject("p1")>>))
    /\ call.outcome = Return(ListOf(<<ModelObject("p1"), ModelObject("p2")>>))

\* The view permissions the middleware names for the value: that of an
\* entity's model, of a QuerySet's model and of its rows, of the models of a
\* list's entity members.
ViewPermissionsOf(value) ==
    CASE value.tag = "Model" -> {get_view_permission_for_model(KindOf[value.id])}
      [] value.tag = "QuerySet" ->
            {get_view_permission_for_model(value.model)}
      [] value.tag = "list" ->
            {get_view_permission_for_model(KindOf[value.items[i].id]) :
                i \in {j \in DOMAIN value.items : IsEntity(value.items[j])}}
      [] OTHER -> {}

\* The permissions the second principal holds on top are all for other
\* models than the value's or for another action than view.
OnlyOtherPermissionsDiffer ==
    /\ call.more.model \cap ViewPermissionsOf(call.value) = {}
    /\ \A g \in call.more.obj : g[1] \notin ViewPermissionsOf(call.value)

\* C29: the outcome for an entity or a collection of model K is the same for
\* two principals that differ only in permissions for other models or for
\* actions other than view, at model level or at object level.
C29_OutcomeDependsOnOwnViewPermission ==
    (ComparedTwice /\ OnlyOtherPermissionsDiffer) => call.outcome = call.before

C29_Witness ==
    /\ ComparedTwice
    /\ call.value = [tag |-> "QuerySet", model |-> "project",
                     items |-> <<ModelObject("p1"), ModelObject("p2")>>]
    /\ call.more = [model |-> {OtherActionPermission}, obj |-> OtherActionGrants]
    /\ modelPerms = {"tests.view_expense", "auth.view_user", OtherActionPermission}
    /\ objPerms = OtherActionGrants
    /\ call.before = Return(ListOf(<<>>))
    /\ call.outcome = Return(ListOf(<<>>))

C29_WitnessOtherModel ==
    /\ ComparedTwice
    /\ call.value = ModelObject("p1")
    /\ call.nonNull
    /\ call.more = [model |-> {"tests.view_expense", "auth.view_user"},
                    obj |-> {<<"tests.view_expense", "e1">>}]
    /\ call.before.kind = "raise"
    /\ call.outcome = call.before

====
